---- MODULE Spec2Model ----
(***************************************************************************)
(* Model of the CO2 emissions dashboard: the dataset normalizer            *)
(* (data_fetcher.py: EmissionsDataFetcher), the snapshot projector         *)
(* (globe_visualizer.py: GlobeVisualizer) and the Dash callbacks (app.py). *)
(*                                                                         *)
(* Encodings.  A JSON value is a record [t, v]: t is "num" (int or float), *)
(* "bool", "null" or "str"; v is its number (a bool's v is 1 or 0).        *)
(* A Python dict is a sequence of entries in insertion order with distinct *)
(* keys.  An Optional result is a sequence of length 0 (None) or 1.        *)
(***************************************************************************)
EXTENDS Integers, Sequences, FiniteSets, TLC

VARIABLES
    n_code,     \* process_country_data: argument country_code
    n_data,     \* process_country_data: argument country_data
    n_out,      \* process_country_data: result (<<>> is None, <<r>> is r)
    n_pc,       \* "call" before the call, "done" or "raised" after it
    upstream,   \* what the remote sources serve: [csv, json1, json2]
    raw_cache_file,        \* data/owid_co2_raw.json: [st, data]
    processed_cache_file,  \* data/emissions_processed.json: [st, data]
    f_pc,       \* latest get_all_countries_data call: "idle", "returned", "raised"
    f_ret,      \* the table it returned
    f_pre,      \* the two cache files as the call found them
    f_avail,    \* which remote sources answered during the call
    f_attempts, \* the sources the call tried, in order
    f_source,   \* the source whose data the call returned
    f_raw,      \* the raw data the call normalized
    f_normalized, \* whether the call ran the normalization loop
    f_write_failed, \* the cache files ("raw", "processed") a write of the call failed on
    emissions_data,    \* the table the application serves from
    g_state,           \* GlobeVisualizer: "unbuilt", "ready" or "error"
    current_year,      \* GlobeVisualizer.current_year
    country_codes_map, \* GlobeVisualizer.country_codes_map
    g_pc,              \* "idle" until create_globe has drawn a figure
    g_year,            \* create_globe: argument year (<<>> is None)
    g_color_range,     \* create_globe: argument color_range (<<>> is None)
    g_rotation,        \* create_globe: argument rotation (<<>> is None)
    fig,               \* the figure create_globe returned
    stored_country,    \* dcc.Store clicked-country-store (<<>> is None)
    stored_rotation,   \* dcc.Store globe-rotation-store
    country_info,      \* what update_country_info rendered (<<>>: the hint to click)
    info_html,         \* what get_country_info_html returned (<<>>: no data)
    a_pc,              \* "idle" until the application serves, then "serving"
    h_lon,             \* the longitude a relayout event supplied last (<<>>: none yet)
    h_lat              \* the latitude a relayout event supplied last (<<>>: none yet)

nvars == <<n_code, n_data, n_out, n_pc>>
fvars == <<upstream, raw_cache_file, processed_cache_file, f_pc, f_ret, f_pre,
           f_avail, f_attempts, f_source, f_raw, f_normalized, f_write_failed>>
gvars == <<emissions_data, g_state, current_year, country_codes_map,
           g_pc, g_year, g_color_range, g_rotation, fig>>
avars == <<stored_country, stored_rotation, country_info, info_html, a_pc,
           h_lon, h_lat>>
vars == <<nvars, fvars, gvars, avars>>

\* A file: absent, present but unreadable (truncated by a failed write), or
\* present with JSON content.  json.dump followed by json.load gives back the
\* dicts, lists, strings and numbers of the model unchanged.
Absent      == [st |-> "absent",  data |-> <<>>]
Corrupt     == [st |-> "corrupt", data |-> <<>>]
FileOf(d)   == [st |-> "ok",      data |-> d]

Sources == {"csv", "json1", "json2"}

\* the normalizer's variables while another specification runs
NormIdle ==
    /\ n_code = "" /\ n_data = <<>> /\ n_out = <<>> /\ n_pc = "idle"

\* the fetcher's variables while another specification runs
FetchIdle ==
    /\ upstream = <<>>
    /\ raw_cache_file = Absent /\ processed_cache_file = Absent
    /\ f_pc = "idle" /\ f_ret = <<>> /\ f_pre = <<>> /\ f_avail = {}
    /\ f_attempts = <<>> /\ f_source = "none" /\ f_raw = <<>>
    /\ f_normalized = FALSE /\ f_write_failed = {}

----------------------------------------------------------------------------
(* Bounds *)

\* largest number of entries of one raw 'co2' mapping
MaxPts == 3

\* largest number of regions in the raw data behind a served table
MaxRegions == 2

\* the visualizer's variables while another specification runs
GlobeIdle ==
    /\ emissions_data = <<>> /\ g_state = "unbuilt" /\ current_year = 0
    /\ country_codes_map = <<>> /\ g_pc = "idle" /\ g_year = <<>>
    /\ g_color_range = <<>> /\ g_rotation = <<>> /\ fig = <<>>

\* the application's stores and panels before the layout is built
AppIdle ==
    /\ stored_country = <<>> /\ stored_rotation = <<>>
    /\ country_info = <<>> /\ info_html = <<>> /\ a_pc = "idle"
    /\ h_lon = <<>> /\ h_lat = <<>>

----------------------------------------------------------------------------
(* Generic helpers over sequences *)

Range(s) == {s[i] : i \in DOMAIN s}

\* the subsequence of s at the indices of idx, in increasing index order
RECURSIVE Pick(_, _, _)
Pick(s, keep, i) ==
    IF i > Len(s) THEN <<>>
    ELSE (IF i \in keep THEN <<s[i]>> ELSE <<>>) \o Pick(s, keep, i + 1)

SeqMax(s) == CHOOSE m \in Range(s) : \A x \in Range(s) : x <= m
SeqMin(s) == CHOOSE m \in Range(s) : \A x \in Range(s) : m <= x

\* list.index(x): the first position holding x
IndexOf(s, x) == CHOOSE i \in DOMAIN s : s[i] = x /\ \A j \in 1..(i - 1) : s[j] # x

\* all sequences over S of length at most n
SeqsUpTo(S, n) == UNION {[1..k -> S] : k \in 0..n}

----------------------------------------------------------------------------
(* JSON values and Python conversions *)

Num(k)  == [t |-> "num",  v |-> k]
JTrue   == [t |-> "bool", v |-> 1]
JNull   == [t |-> "null", v |-> 0]
JStr    == [t |-> "str",  v |-> 0]

\* int(year_str) on the year keys of the model: surrounding blanks and
\* leading zeros are accepted, a non-numeric string raises ValueError.
PyInt(s) ==
    CASE s = "2014"  -> [ok |-> TRUE,  v |-> 2014]
      [] s = "2015"  -> [ok |-> TRUE,  v |-> 2015]
      [] s = "2020"  -> [ok |-> TRUE,  v |-> 2020]
      [] s = "02020" -> [ok |-> TRUE,  v |-> 2020]
      [] OTHER       -> [ok |-> FALSE, v |-> 0]

\* value is not None and isinstance(value, (int, float)); bool is an int
IsNumber(val) == val.t \in {"num", "bool"}

\* float(value)
PyFloat(val) == val.v

\* a raw region record that is a JSON object whose 'co2', when present, is a
\* JSON object: 'country' and 'co2' may each be missing.  t is the JSON type
\* of the record, co2_t the JSON type of its 'co2'.
RawRecord(hasName, country, hasCo2, co2) ==
    [t |-> "dict", hasName |-> hasName, country |-> IF hasName THEN country ELSE "",
     hasCo2 |-> hasCo2, co2_t |-> "dict", co2 |-> IF hasCo2 THEN co2 ELSE <<>>]

\* a raw region record that is a JSON object whose 'co2' is null or a list
Co2OfType(hasName, country, co2_t) ==
    [RawRecord(hasName, country, TRUE, <<>>) EXCEPT !.co2_t = co2_t]

\* a raw region entry that is no JSON object: null or a list
RecordOfType(t) ==
    [RawRecord(FALSE, "", FALSE, <<>>) EXCEPT !.t = t]

\* the outcome of a call that raised an exception it does not catch
Raises(exception) == <<[exception |-> exception]>>
IsException(out) == out # <<>> /\ "exception" \in DOMAIN out[1]

----------------------------------------------------------------------------
(* process_country_data *)

\* The retained (year, emission) pairs, in the mapping's iteration order.
RECURSIVE ExtractPairs(_)
ExtractPairs(items) ==
    IF items = <<>> THEN <<>>
    ELSE LET year_str == Head(items)[1]
             value    == Head(items)[2]
             year     == PyInt(year_str)
         IN  (IF year.ok /\ IsNumber(value)
                THEN <<[year |-> year.v, emissions |-> PyFloat(value)]>>
                ELSE <<>>) \o ExtractPairs(Tail(items))

\* df.sort_values('year'): the default sort is not stable, so rows of equal
\* year may come out in any order.  The set of possible sorted frames.
SortValues(pairs) ==
    LET n == Len(pairs)
        perms == {p \in [1..n -> 1..n] : \A i, j \in 1..n : i # j => p[i] # p[j]}
    IN  {[i \in 1..n |-> pairs[p[i]]] : p \in
            {q \in perms : \A i \in 1..(n - 1) : pairs[q[i]].year <= pairs[q[i + 1]].year}}

\* width of the trend window: rows with year >= latest_year - 5
TrendSpan == 5

\* recent_years = df[df['year'] >= latest_year - 5]
RecentYearsMut(df, latest_year) ==
    Pick(df, {i \in DOMAIN df : df[i].year > latest_year - TrendSpan}, 1)
RecentYears(df, latest_year) ==
    Pick(df, {i \in DOMAIN df : df[i].year >= latest_year - TrendSpan}, 1)

TrendOfMut(recent_years) ==
    IF Len(recent_years) > 1
      THEN (IF recent_years[Len(recent_years)].emissions >= recent_years[1].emissions
              THEN "increasing" ELSE "decreasing")
      ELSE "stable"
TrendOf(recent_years) ==
    IF Len(recent_years) > 1
      THEN (IF recent_years[Len(recent_years)].emissions > recent_years[1].emissions
              THEN "increasing" ELSE "decreasing")
      ELSE "stable"

\* The record built from a sorted frame df (lines 130-151).
BuildRecordMut(country_code, country_data, df) ==
    LET years         == [i \in DOMAIN df |-> df[i].year]
        emissions     == [i \in DOMAIN df |-> df[i].emissions]
        latest_year   == SeqMax(years)
        latest_emission == emissions[IndexOf(years, latest_year)]
        recent_years  == RecentYears(df, latest_year)
        recent        == [i \in DOMAIN recent_years |-> recent_years[i].emissions]
    IN  [country_code    |-> country_code,
         country_name    |-> IF country_data.hasName THEN country_data.country
                                                     ELSE country_code,
         years           |-> years,
         emissions       |-> emissions,
         latest_year     |-> latest_year,
         latest_emission |-> latest_emission,
         trend           |-> TrendOf(recent_years),
         max_emission    |-> SeqMax(recent),
         min_emission    |-> SeqMin(recent)]
BuildRecord(country_code, country_data, df) ==
    LET years         == [i \in DOMAIN df |-> df[i].year]
        emissions     == [i \in DOMAIN df |-> df[i].emissions]
        latest_year   == SeqMax(years)
        latest_emission == emissions[IndexOf(years, latest_year)]
    IN  [country_code    |-> country_code,
         country_name    |-> IF country_data.hasName THEN country_data.country
                                                     ELSE country_code,
         years           |-> years,
         emissions       |-> emissions,
         latest_year     |-> latest_year,
         latest_emission |-> latest_emission,
         trend           |-> TrendOf(RecentYears(df, latest_year)),
         max_emission    |-> SeqMax(emissions),
         min_emission    |-> SeqMin(emissions)]

\* The set of outcomes of process_country_data: <<>> is None, <<r>> the record
\* r, Raises(e) an exception that leaves the function.  Line 109 tests
\* 'co2' not in country_data: TypeError on None, true on a list; line 114 calls
\* co2_data.items() outside the try: AttributeError on None and on a list.
process_country_data(country_code, country_data) ==
    IF country_data.t = "null" THEN {Raises("TypeError")}
    ELSE IF country_data.t # "dict" \/ ~country_data.hasCo2 THEN {<<>>}
    ELSE IF country_data.co2_t # "dict" THEN {Raises("AttributeError")}
    ELSE LET pairs == ExtractPairs(country_data.co2)
         IN  IF pairs = <<>> THEN {<<>>}
             ELSE {<<BuildRecord(country_code, country_data, df)>> :
                       df \in SortValues(pairs)}

----------------------------------------------------------------------------
(* fetch_owid_data: the CSV conversion *)

\* dict[key] = val: replaces the value of an existing key in place, else appends
DictSet(d, key, val) ==
    IF \E i \in DOMAIN d : d[i][1] = key
      THEN [i \in DOMAIN d |-> IF d[i][1] = key THEN <<key, val>> ELSE d[i]]
      ELSE Append(d, <<key, val>>)

DictKeys(d) == {d[i][1] : i \in DOMAIN d}
DictGet(d, key) == d[CHOOSE i \in DOMAIN d : d[i][1] = key][2]

\* str(year) of the years of the model
PyStr(y) ==
    CASE y = 2014 -> "2014"
      [] y = 2015 -> "2015"
      [] y = 2020 -> "2020"

\* country_code.startswith('OWID_') and len(country_code) on the codes of the model
StartsWithOWID(c) == c \in {"OWID_WRL", "OWID_KOS", "OWID_USA", "OWID_FRA"}
PyLen3(c) == c \in {"USA", "FRA", "WRL"}
PrefixOWID(c) ==
    CASE c = "USA" -> "OWID_USA"
      [] c = "FRA" -> "OWID_FRA"
      [] c = "WRL" -> "OWID_WRL"

\* key = code if code.startswith('OWID_') else 'OWID_' + code if len(code) == 3 else code
CsvKey(country_code) ==
    IF StartsWithOWID(country_code) THEN country_code
    ELSE IF PyLen3(country_code) THEN PrefixOWID(country_code)
    ELSE country_code

\* df['country'].unique(): the countries in order of first appearance
RECURSIVE UniqueCountries(_, _)
UniqueCountries(df, seen) ==
    IF df = <<>> THEN <<>>
    ELSE IF Head(df).country \in seen THEN UniqueCountries(Tail(df), seen)
    ELSE <<Head(df).country>> \o UniqueCountries(Tail(df), seen \cup {Head(df).country})

\* the 'co2' mapping of one country's rows: rows with a year and a value
RECURSIVE CsvCo2(_)
CsvCo2(rows) ==
    IF rows = <<>> THEN <<>>
    ELSE LET row  == rows[Len(rows)]
             rest == CsvCo2(SubSeq(rows, 1, Len(rows) - 1))
         IN  IF row.year # <<>> /\ row.co2 # <<>>
               THEN DictSet(rest, PyStr(row.year[1]), Num(row.co2[1]))
               ELSE rest

\* lines 49-72: the raw mapping built from the downloaded frame
RECURSIVE CsvToData(_, _)
CsvToData(df, countries) ==
    IF countries = <<>> THEN <<>>
    ELSE LET country == countries[Len(countries)]
             rest    == CsvToData(df, SubSeq(countries, 1, Len(countries) - 1))
             country_df == Pick(df, {i \in DOMAIN df : df[i].country = country}, 1)
             iso     == country_df[1].iso_code
             country_code == IF iso # <<>> THEN iso[1] ELSE country
             co2_data == CsvCo2(country_df)
         IN  IF country_code = "" THEN rest
             ELSE DictSet(rest, CsvKey(country_code),
                          RawRecord(TRUE, country, co2_data # <<>>, co2_data))

----------------------------------------------------------------------------
(* fetch_owid_data *)

\* what a source delivers when it answers
Payload(src) ==
    IF src = "csv" THEN CsvToData(upstream.csv, UniqueCountries(upstream.csv, {}))
    ELSE upstream[src]

\* with open(raw_cache_file, 'w') as f: json.dump(data, f)
\* mode "ok": written; "open_fails": open raises, the file is untouched;
\* "dump_fails": the file was truncated and the write raises part-way.
WriteFile(file, data, mode) ==
    CASE mode = "ok"         -> FileOf(data)
      [] mode = "open_fails" -> file
      [] mode = "dump_fails" -> Corrupt

WriteModes == {"ok", "open_fails", "dump_fails"}

\* the CSV URL first, then the JSON URLs in list order
SourceOrder == <<"csv", "json1", "json2">>

\* lines 42-102: the remote sources from position i on.  avail is the set of
\* sources that answer, wr[src] the outcome of the cache write after src.
\* The write (lines 75-76, 92-93) stands inside the try of its source: when it
\* raises, the except clause drops the data and the next source is tried.
RECURSIVE TrySources(_, _, _, _, _)
TrySources(i, file, attempts, avail, wr) ==
    IF i > Len(SourceOrder)
      THEN [raised |-> TRUE, data |-> <<>>, file |-> file,
            attempts |-> attempts, source |-> "none", wfailed |-> FALSE]
    ELSE LET src == SourceOrder[i]
             tried == Append(attempts, src)
         IN  IF src \notin avail
               THEN TrySources(i + 1, file, tried, avail, wr)
             ELSE IF wr[src] = "ok"
               THEN [raised |-> FALSE, data |-> Payload(src),
                     file |-> WriteFile(file, Payload(src), "ok"),
                     attempts |-> tried, source |-> src, wfailed |-> FALSE]
             ELSE [TrySources(i + 1, WriteFile(file, Payload(src), wr[src]),
                              tried, avail, wr) EXCEPT !.wfailed = TRUE]

fetch_owid_data(file, avail, wr) ==
    IF file.st = "ok"
      THEN [raised |-> FALSE, data |-> file.data, file |-> file,
            attempts |-> <<"raw_cache">>, source |-> "raw_cache",
            wfailed |-> FALSE]
    ELSE TrySources(1, file,
                    IF file.st = "corrupt" THEN <<"raw_cache">> ELSE <<>>,
                    avail, wr)

----------------------------------------------------------------------------
(* get_all_countries_data *)

AggregateCodesMut ==
    {"OWID_EUR", "OWID_ASI", "OWID_AFR", "OWID_NAM", "OWID_SAM", "OWID_OCE", "OWID_KOS"}
AggregateCodes ==
    {"OWID_WRL", "OWID_EUR", "OWID_ASI", "OWID_AFR",
     "OWID_NAM", "OWID_SAM", "OWID_OCE", "OWID_KOS"}

\* lines 167-177: the outcomes of the loop over raw_data: the table built, or
\* raised when process_country_data raised for an entry (nothing catches it)
RECURSIVE Normalize(_)
Normalize(raw_data) ==
    IF raw_data = <<>> THEN {[raised |-> FALSE, table |-> <<>>]}
    ELSE LET country_code == raw_data[Len(raw_data)][1]
             country_data == raw_data[Len(raw_data)][2]
             rests        == Normalize(SubSeq(raw_data, 1, Len(raw_data) - 1))
         IN  IF country_code \in AggregateCodes THEN rests
             ELSE {IF rest.raised \/ processed = <<>> THEN rest
                   ELSE IF IsException(processed)
                     THEN [raised |-> TRUE, table |-> <<>>]
                   ELSE [raised |-> FALSE,
                         table |-> DictSet(rest.table, country_code, processed[1])] :
                       rest \in rests,
                       processed \in process_country_data(country_code, country_data)}

\* lines 156-164: the processed cache short-circuits when it loads and is non-empty
ProcessedCacheHitMut(file) == file.st = "ok"
ProcessedCacheHit(file) == file.st = "ok" /\ file.data # <<>>

\* The whole call.  avail: the remote sources that answer; wr: the outcome of
\* each raw-cache write; pw: the outcome of the processed-cache write.
get_all_countries_data(avail, wr, pw) ==
    /\ f_pre' = [raw |-> raw_cache_file, processed |-> processed_cache_file]
    /\ IF ProcessedCacheHit(processed_cache_file)
         THEN /\ f_pc' = "returned"
              /\ f_ret' = processed_cache_file.data
              /\ f_attempts' = <<"processed_cache">>
              /\ f_source' = "processed_cache"
              /\ f_avail' = {} /\ f_raw' = <<>> /\ f_normalized' = FALSE
              /\ f_write_failed' = {}
              /\ UNCHANGED <<raw_cache_file, processed_cache_file>>
         ELSE LET tried == IF processed_cache_file.st = "absent"
                             THEN <<>> ELSE <<"processed_cache">>
                  fetched == fetch_owid_data(raw_cache_file, avail, wr)
              IN  /\ f_avail' = avail
                  /\ f_attempts' = tried \o fetched.attempts
                  /\ f_source' = fetched.source
                  /\ raw_cache_file' = fetched.file
                  /\ IF fetched.raised
                       THEN /\ f_pc' = "raised"
                            /\ f_ret' = <<>> /\ f_raw' = <<>>
                            /\ f_normalized' = FALSE
                            /\ f_write_failed' =
                                   IF fetched.wfailed THEN {"raw"} ELSE {}
                            /\ UNCHANGED processed_cache_file
                       ELSE \E built \in Normalize(fetched.data) :
                            /\ f_raw' = fetched.data
                            /\ f_normalized' = TRUE
                            /\ IF built.raised
                                 THEN /\ f_pc' = "raised"
                                      /\ f_ret' = <<>>
                                      /\ f_write_failed' =
                                             IF fetched.wfailed THEN {"raw"} ELSE {}
                                      /\ UNCHANGED processed_cache_file
                                 ELSE /\ f_pc' = "returned"
                                      /\ f_ret' = built.table
                                      /\ processed_cache_file' =
                                             WriteFile(processed_cache_file, f_ret', pw)
                                      /\ f_write_failed' =
                                             (IF fetched.wfailed THEN {"raw"} ELSE {})
                                                 \cup (IF pw # "ok" THEN {"processed"}
                                                                     ELSE {})
    /\ UNCHANGED <<upstream, nvars, gvars, avars>>

----------------------------------------------------------------------------
(* What the remote sources serve *)

CsvRow(country, iso_code, year, co2) ==
    [country |-> country, iso_code |-> iso_code, year |-> year, co2 |-> co2]

\* the published table: a country, an aggregate, a region without ISO code,
\* a row without value and a year published twice
CsvFrames ==
    { << CsvRow("United States", <<"USA">>, <<2015>>, <<5>>),
         CsvRow("World", <<"OWID_WRL">>, <<2020>>, <<8>>),
         CsvRow("United States", <<"USA">>, <<2020>>, <<8>>) >>,
      << CsvRow("Europe", <<>>, <<2020>>, <<8>>),
         CsvRow("France", <<"FRA">>, <<2020>>, <<>>),
         CsvRow("World", <<"WRL">>, <<2020>>, <<5>>),
         CsvRow("World", <<"WRL">>, <<2020>>, <<8>>) >> }

Co2_5_8   == << <<"2015", Num(5)>>, <<"2020", Num(8)>> >>
Co2_dup   == << <<"2020", Num(8)>>, <<"02020", Num(5)>> >>
Co2_one   == << <<"2020", Num(8)>> >>
Co2_bad   == << <<"n/a", Num(5)>>, <<"2020", JNull>> >>

\* JSON bodies: countries with data, aggregates with data, records that
\* normalization drops
BodyMixed ==
    << <<"OWID_WRL", RawRecord(TRUE, "World", TRUE, Co2_5_8)>>,
       <<"USA", RawRecord(TRUE, "United States", TRUE, Co2_5_8)>>,
       <<"FRA", RawRecord(FALSE, "", TRUE, Co2_dup)>> >>
BodyNothingKept ==
    << <<"OWID_KOS", RawRecord(TRUE, "Kosovo", TRUE, Co2_one)>>,
       <<"FRA", RawRecord(TRUE, "France", TRUE, Co2_bad)>>,
       <<"USA", RawRecord(TRUE, "United States", FALSE, <<>>)>> >>
BodyOneCountry ==
    << <<"FRA", RawRecord(TRUE, "France", TRUE, Co2_one)>> >>
\* a country with data, then a record whose 'co2' is null
BodyNullCo2 ==
    << <<"USA", RawRecord(TRUE, "United States", TRUE, Co2_5_8)>>,
       <<"FRA", Co2OfType(TRUE, "France", "null")>> >>
\* an entry that is a list instead of an object, then a country with data
BodyListRecord ==
    << <<"FRA", RecordOfType("list")>>,
       <<"USA", RawRecord(TRUE, "United States", TRUE, Co2_one)>> >>

\* what the two JSON URLs serve
JsonPairs ==
    { <<BodyMixed, BodyNothingKept>>, <<BodyNothingKept, BodyOneCountry>>,
      <<BodyOneCountry, BodyMixed>>, <<BodyNullCo2, BodyListRecord>> }

----------------------------------------------------------------------------
(* Specification of the fetcher: any number of program starts, each one    *)
(* call of get_all_countries_data, over the cache files they leave behind. *)

Init ==
    /\ upstream \in {[csv |-> frame, json1 |-> pair[1], json2 |-> pair[2]] :
                         frame \in CsvFrames, pair \in JsonPairs}
    /\ raw_cache_file = Absent
    /\ processed_cache_file = Absent
    /\ f_pc = "idle" /\ f_ret = <<>> /\ f_pre = <<>> /\ f_avail = {}
    /\ f_attempts = <<>> /\ f_source = "none" /\ f_raw = <<>>
    /\ f_normalized = FALSE /\ f_write_failed = {}
    /\ NormIdle
    /\ GlobeIdle
    /\ AppIdle

\* The inputs a call does not read are fixed: no write follows a source that
\* does not answer, and a processed-cache hit reads neither network nor disk.
GetAllCountriesData ==
    \E avail \in SUBSET Sources :
        \E wr \in [Sources -> WriteModes], pw \in WriteModes :
            /\ \A src \in Sources \ avail : wr[src] = "ok"
            /\ ProcessedCacheHit(processed_cache_file) =>
                   (avail = {} /\ pw = "ok")
            /\ get_all_countries_data(avail, wr, pw)

Next == GetAllCountriesData

Spec == Init /\ [][Next]_vars

----------------------------------------------------------------------------
(* GlobeVisualizer.  Emission values are whole numbers; percentiles and the  *)
(* colour bounds zmin, zmax are held in hundredths (a bound of 475 is 4.75). *)

\* code.replace('OWID_', '') on the region codes of the model
ReplaceOWID(code) ==
    CASE code = "OWID_FRA" -> "FRA"
      [] code = "OWID_USA" -> "USA"
      [] OTHER -> code

\* _load_country_codes: owid_to_iso3 maps every code it knows to itself
load_country_codes(table) ==
    [i \in DOMAIN table |-> <<table[i][1], ReplaceOWID(table[i][1])>>]

\* the values of a Python dict, in order
DictValues(d) == [i \in DOMAIN d |-> d[i][2]]

\* lines 109-116: the value shown for one region in the frame of a year
FrameValueMut(data, year) ==
    IF year \in Range(data.years)
      THEN data.emissions[IndexOf(data.years, year)]
      ELSE 0
FrameValue(data, year) ==
    IF year \in Range(data.years)
      THEN data.emissions[IndexOf(data.years, year)]
      ELSE data.latest_emission

\* ascending sort of a sequence of numbers
RECURSIVE Insert(_, _)
Insert(x, s) ==
    IF s = <<>> THEN <<x>>
    ELSE IF x <= Head(s) THEN <<x>> \o s
    ELSE <<Head(s)>> \o Insert(x, Tail(s))
RECURSIVE Sorted(_)
Sorted(s) == IF s = <<>> THEN <<>> ELSE Insert(Head(s), Sorted(Tail(s)))

LowPercentile  == 5
HighPercentile == 95

\* np.nanpercentile(arr, q) in hundredths: linear interpolation between the
\* order statistics around position q/100 * (n - 1)
NanPercentile(arr, q) ==
    LET srt == Sorted(arr)
        k   == q * (Len(arr) - 1)
        lo  == (k \div 100) + 1
        r   == k % 100
    IN  IF r = 0 THEN 100 * srt[lo]
        ELSE (100 - r) * srt[lo] + r * srt[lo + 1]

\* float(np.nanmax(arr)) in hundredths
NanMax(arr) == 100 * SeqMax(arr)

PyMax(a, b) == IF b > a THEN b ELSE a

\* max(0.0, percentile_5)
ComputedZmin(emission_values) ==
    PyMax(0, NanPercentile(emission_values, LowPercentile))

\* percentile_95 if percentile_95 > 0 else float(np.nanmax(emission_array))
ComputedZmaxMut(emission_values) ==
    NanPercentile(emission_values, HighPercentile)
ComputedZmax(emission_values) ==
    LET percentile_95 == NanPercentile(emission_values, HighPercentile)
    IN  IF percentile_95 > 0 THEN percentile_95 ELSE NanMax(emission_values)

\* color_range.get(key, default)
RangeGet(color_range, key, default) ==
    IF key \in DictKeys(color_range) THEN DictGet(color_range, key) ELSE default

\* lines 129-134: the bounds before the corrections; `if color_range` is false
\* for None and for an empty dict
InitialBoundsMut(color_range, emission_values) ==
    IF color_range # <<>> /\ color_range[1] # <<>>
      THEN [zmin |-> PyMax(0, RangeGet(color_range[1], "min", ComputedZmin(emission_values))),
            zmax |-> RangeGet(color_range[1], "max", ComputedZmax(emission_values))]
      ELSE [zmin |-> ComputedZmin(emission_values),
            zmax |-> ComputedZmax(emission_values)]
InitialBounds(color_range, emission_values) ==
    IF color_range # <<>> /\ color_range[1] # <<>>
      THEN [zmin |-> RangeGet(color_range[1], "min", ComputedZmin(emission_values)),
            zmax |-> RangeGet(color_range[1], "max", ComputedZmax(emission_values))]
      ELSE [zmin |-> ComputedZmin(emission_values),
            zmax |-> ComputedZmax(emission_values)]

\* lines 135-136: a zmax that is not positive is replaced
PositiveZmax(zmax, max_emission) ==
    IF zmax <= 0
      THEN (IF max_emission > 0 THEN 100 * max_emission ELSE 100)
      ELSE zmax

\* lines 137-138: a scale with zmax <= zmin restarts at 0
DegenerateFixMut(zmin, zmax) == IF zmax < zmin THEN 0 ELSE zmin
DegenerateFix(zmin, zmax) == IF zmax <= zmin THEN 0 ELSE zmin

\* the view a globe has when none is given (lines 99-100; app.py line 88)
DefaultRotation == << <<"lon", 0>>, <<"lat", 0>> >>

\* lines 109-123: the table as the frame loop leaves it.  The loop reads
\* data['years'], data['emissions'], data['latest_emission'] and
\* data['country_name'] of every record and assigns to none of them.
TableAfterFrameMut(table, yr) ==
    [i \in DOMAIN table |->
        <<table[i][1], [table[i][2] EXCEPT !.latest_emission = FrameValue(table[i][2], yr)]>>]
TableAfterFrame(table, yr) == table

\* create_globe: the figure drawn for a year (<<>> is None), a rotation (<<>>
\* is None) and a colour range
create_globe(year, rotation, color_range) ==
    LET yr   == IF year = <<>> THEN current_year ELSE year[1]
        rot  == IF rotation = <<>> THEN DefaultRotation ELSE rotation[1]
        max_emission ==
            SeqMax([i \in DOMAIN emissions_data |-> emissions_data[i][2].latest_emission])
        emission_values ==
            [i \in DOMAIN emissions_data |-> FrameValue(emissions_data[i][2], yr)]
        country_codes ==
            [i \in DOMAIN emissions_data |->
                RangeGet(country_codes_map, emissions_data[i][1],
                         ReplaceOWID(emissions_data[i][1]))]
        country_names ==
            [i \in DOMAIN emissions_data |-> emissions_data[i][2].country_name]
        bounds == InitialBounds(color_range, emission_values)
        zmax   == PositiveZmax(bounds.zmax, max_emission)
        zmin   == DegenerateFix(bounds.zmin, zmax)
    IN  [locations |-> country_codes,
         z         |-> emission_values,
         names     |-> country_names,
         zmin      |-> zmin,
         zmax      |-> zmax,
         year      |-> yr,
         rotation  |-> [lon |-> RangeGet(rot, "lon", 0),
                        lat |-> RangeGet(rot, "lat", 0)]]

----------------------------------------------------------------------------
(* Specification of the visualizer: a table that normalization produced,   *)
(* GlobeVisualizer(table), then any number of create_globe calls.          *)

RegionCodes == <<"USA", "OWID_FRA", "Europe", "CAN">>
RegionNames == <<"United States", "France", "Europe", "Canada">>

\* series over 2015 and 2020: none that is kept, one point, or both points
\* with negative, zero and positive values
GlobeMaps ==
    {<<>>}
      \cup {<< <<"2020", Num(a)>> >> : a \in {0, 5}}
      \cup {<< <<"2015", Num(ab[1])>>, <<"2020", Num(ab[2])>> >> :
               ab \in {<<-100, 0>>, <<-100, 5>>, <<0, 0>>, <<0, 5>>, <<5, 0>>, <<5, 5>>}}

GlobeRaws ==
    UNION {{[i \in 1..k |-> <<RegionCodes[i], RawRecord(TRUE, RegionNames[i], TRUE, m[i])>>] :
               m \in [1..k -> GlobeMaps]} : k \in 0..MaxRegions}

GlobeTables == {built.table : built \in UNION {Normalize(raw) : raw \in GlobeRaws}}

\* requested years: before every series, in it, in its gap, after it
RequestYears == {2014, 2015, 2018, 2025}

\* colour ranges a caller may pass, bounds in hundredths: None, or a dict
\* with 'min' absent, negative or positive and 'max' absent, zero or positive
MinOverrides == {<<>>, << <<"min", -100>> >>, << <<"min", 300>> >>}
MaxOverrides == {<<>>, << <<"max", 0>> >>, << <<"max", 500>> >>}
ColorRanges ==
    {<<>>} \cup {<<lo \o hi>> : lo \in MinOverrides, hi \in MaxOverrides}

GlobeInit ==
    /\ emissions_data \in GlobeTables
    /\ g_state = "unbuilt" /\ current_year = 0 /\ country_codes_map = <<>>
    /\ g_pc = "idle" /\ g_year = <<>> /\ g_color_range = <<>>
    /\ g_rotation = <<>> /\ fig = <<>>
    /\ NormIdle
    /\ FetchIdle
    /\ AppIdle

\* GlobeVisualizer.__init__: max() of an empty table raises ValueError
GlobeVisualizerInit ==
    /\ g_state = "unbuilt"
    /\ IF emissions_data = <<>>
         THEN /\ g_state' = "error"
              /\ UNCHANGED <<current_year, country_codes_map>>
         ELSE /\ g_state' = "ready"
              /\ current_year' =
                     SeqMax([i \in DOMAIN emissions_data |-> emissions_data[i][2].latest_year])
              /\ country_codes_map' = load_country_codes(emissions_data)
    /\ UNCHANGED <<emissions_data, g_pc, g_year, g_color_range, g_rotation, fig,
                   nvars, fvars, avars>>

\* a direct call; the rotation is left to its default
CreateGlobe ==
    /\ g_state = "ready"
    /\ \E year \in {<<>>} \cup {<<y>> : y \in RequestYears}, color_range \in ColorRanges :
          /\ fig' = <<create_globe(year, <<>>, color_range)>>
          /\ g_year' = year
          /\ g_color_range' = color_range
          /\ g_rotation' = <<>>
          /\ emissions_data' =
                 TableAfterFrame(emissions_data,
                                 IF year = <<>> THEN current_year ELSE year[1])
    /\ g_pc' = "drawn"
    /\ UNCHANGED <<g_state, current_year, country_codes_map, nvars, fvars, avars>>

GlobeNext == GlobeVisualizerInit \/ CreateGlobe

SpecGlobe == GlobeInit /\ [][GlobeNext]_vars

----------------------------------------------------------------------------
(* app.py: the Dash callbacks.  A relayout event or click event is <<>> for  *)
(* None, else <<d>> with d the event's dict; the value of a dict entry is a  *)
(* number or, under 'geo', a nested dict.                                    *)

\* d.get(key): <<>> is None
Get(d, key) == IF key \in DictKeys(d) THEN <<DictGet(d, key)>> ELSE <<>>

\* a or b on two results of d.get: None and 0 are falsy, and b is the value
\* whenever a is falsy
PyOr(a, b) == IF a # <<>> /\ a[1] # 0 THEN a ELSE b

\* lines 105-124: the rotation update_globe stores and forwards
TrackRotation(relayout_data, stored) ==
    LET rotation == IF stored = <<>> THEN DefaultRotation ELSE stored
    IN  IF relayout_data = <<>> \/ relayout_data[1] = <<>> THEN rotation
        ELSE LET ev   == relayout_data[1]
                 lon0 == PyOr(Get(ev, "geo.projection.rotation.lon"), Get(ev, "lon"))
                 lat0 == PyOr(Get(ev, "geo.projection.rotation.lat"), Get(ev, "lat"))
                 rot  == IF "geo" \in DictKeys(ev)
                           THEN RangeGet(RangeGet(DictGet(ev, "geo"), "projection", <<>>),
                                         "rotation", <<>>)
                           ELSE <<>>
                 lon  == IF "lon" \in DictKeys(rot) THEN <<DictGet(rot, "lon")>> ELSE lon0
                 lat  == IF "lat" \in DictKeys(rot) THEN <<DictGet(rot, "lat")>> ELSE lat0
             IN  << <<"lon", IF lon = <<>> THEN RangeGet(rotation, "lon", 0) ELSE lon[1]>>,
                    <<"lat", IF lat = <<>> THEN RangeGet(rotation, "lat", 0) ELSE lat[1]>> >>

\* lines 130-147: the selection after a click; click_data is <<>> or <<point>>
\* for {'points': [point]}, point.customdata and point.location are <<>> when
\* the point lacks the key.  The first region in table order that matches.
ClickedCountry(click_data, stored) ==
    IF click_data = <<>> THEN stored
    ELSE LET point == click_data[1]
             hits  ==
                 IF point.customdata # <<>>
                   THEN {i \in DOMAIN emissions_data :
                            emissions_data[i][2].country_name = point.customdata[1]}
                 ELSE IF point.location # <<>>
                   THEN {i \in DOMAIN emissions_data :
                            RangeGet(country_codes_map, emissions_data[i][1],
                                     ReplaceOWID(emissions_data[i][1])) = point.location[1]}
                 ELSE {}
         IN  IF hits = {} THEN stored
             ELSE <<emissions_data[CHOOSE i \in hits : \A j \in hits : i <= j][1]>>

update_globe(year, click_data, relayout_data, stored_c, stored_r) ==
    LET rotation == TrackRotation(relayout_data, stored_r)
    IN  [fig             |-> create_globe(<<year>>, <<rotation>>, <<>>),
         clicked_country |-> ClickedCountry(click_data, stored_c),
         rotation        |-> rotation]

\* str.capitalize() on the trend labels
Capitalize(trend) ==
    CASE trend = "increasing" -> "Increasing"
      [] trend = "decreasing" -> "Decreasing"
      [] trend = "stable"     -> "Stable"

\* f"{x:.2f}" on a whole number: the number in hundredths
TwoDecimals(x) == 100 * x

\* the fields both panels show for a record
PanelOf(data) ==
    [name            |-> data.country_name,
     latest_year     |-> data.latest_year,
     latest_emission |-> TwoDecimals(data.latest_emission),
     trend           |-> Capitalize(data.trend),
     max_emission    |-> TwoDecimals(data.max_emission),
     min_emission    |-> TwoDecimals(data.min_emission),
     count           |-> Len(data.years),
     from            |-> SeqMin(data.years),
     to              |-> SeqMax(data.years)]

\* app.py lines 155-229: <<>> is the hint to click, else the panel and chart
update_country_info(country_code) ==
    IF country_code = <<>> \/ country_code[1] \notin DictKeys(emissions_data)
      THEN <<>>
      ELSE LET data == DictGet(emissions_data, country_code[1])
           IN  <<[info_panel |-> PanelOf(data),
                  trend_chart |-> [x |-> data.years, y |-> data.emissions]]>>

\* globe_visualizer.py lines 211-239: <<>> is the "no data" paragraph
get_country_info_html(country_code) ==
    IF country_code \notin DictKeys(emissions_data) THEN <<>>
    ELSE <<PanelOf(DictGet(emissions_data, country_code))>>

----------------------------------------------------------------------------
(* Specification of the application: the module is imported over a table   *)
(* that normalization produced (lines 18-28, 87-88), then the callbacks run *)
(* in any order on any events.                                             *)

AppRaws ==
    { << <<"USA", RawRecord(TRUE, "United States", TRUE, Co2_5_8)>>,
         <<"OWID_FRA", RawRecord(TRUE, "France", TRUE, Co2_one)>> >>,
      << <<"CAN", RawRecord(FALSE, "", TRUE, Co2_5_8)>> >> }

AppTables == {built.table : built \in UNION {Normalize(raw) : raw \in AppRaws}}

\* slider positions between the first year and current_year
SliderYears == {2015, 2020}

\* angles a drag can end on
Angles == {0, 30}

\* a dict with any of the entries <<lonKey, a>>, <<latKey, b>>, at least one
RotationDicts(lonKey, latKey) ==
    {<< <<lonKey, a>> >> : a \in Angles}
        \cup {<< <<latKey, b>> >> : b \in Angles}
        \cup {<< <<lonKey, a>>, <<latKey, b>> >> : a \in Angles, b \in Angles}

\* relayoutData: None, {}, a change that is no rotation, and a rotation in the
\* flattened keys Plotly reports, in plain keys or in a nested 'geo' dict
RelayoutEvents ==
    {<<>>, << <<>> >>, << << <<"autosize", 1>> >> >>}
        \cup {<<d>> : d \in RotationDicts("geo.projection.rotation.lon",
                                          "geo.projection.rotation.lat")}
        \cup {<<d>> : d \in RotationDicts("lon", "lat")}
        \cup {<< << <<"geo", << <<"projection", << <<"rotation", d>> >> >> >> >> >> >> :
                  d \in RotationDicts("lon", "lat")}
        \cup {<< << <<"geo", << <<"projection", <<>> >> >> >> >> >>}

\* clickData: None, a point with customdata, a point with a location only
ClickEvents ==
    {<<>>}
        \cup {<<[customdata |-> <<n>>, location |-> <<"USA">>]>> :
                  n \in {"France", "CAN", "Atlantis"}}
        \cup {<<[customdata |-> <<>>, location |-> <<c>>]>> : c \in {"USA", "FRA"}}
        \cup {<<[customdata |-> <<>>, location |-> <<>>]>>}

\* the events of one firing of update_globe: a relayout, a click, or a click
\* together with a relayout that carries a flattened longitude
CallbackInputs ==
    {<<<<>>, r>> : r \in RelayoutEvents}
        \cup {<<c, <<>>>> : c \in ClickEvents}
        \cup {<<c, << << <<"geo.projection.rotation.lon", 30>> >> >> >> : c \in ClickEvents}

\* the rotation an event supplies for an axis ("lon" or "lat"): <<>> when it
\* supplies none
EventRotation(relayout_data, axis) ==
    IF relayout_data = <<>> THEN <<>>
    ELSE LET ev   == relayout_data[1]
             flat == IF axis = "lon" THEN "geo.projection.rotation.lon"
                                     ELSE "geo.projection.rotation.lat"
             rot  == IF "geo" \in DictKeys(ev)
                       THEN RangeGet(RangeGet(DictGet(ev, "geo"), "projection", <<>>),
                                     "rotation", <<>>)
                       ELSE <<>>
         IN  IF flat \in DictKeys(ev) THEN <<DictGet(ev, flat)>>
             ELSE IF axis \in DictKeys(rot) THEN <<DictGet(rot, axis)>>
             ELSE Get(ev, axis)

AppInit ==
    /\ emissions_data \in AppTables
    /\ g_state = "ready"
    /\ current_year =
           SeqMax([i \in DOMAIN emissions_data |-> emissions_data[i][2].latest_year])
    /\ country_codes_map = load_country_codes(emissions_data)
    /\ g_year = <<current_year>> /\ g_color_range = <<>> /\ g_rotation = <<>>
    /\ fig = <<create_globe(<<current_year>>, <<>>, <<>>)>>
    /\ g_pc = "drawn"
    /\ stored_country = <<>> /\ stored_rotation = DefaultRotation
    /\ country_info = <<>> /\ info_html = <<>> /\ a_pc = "serving"
    /\ h_lon = <<>> /\ h_lat = <<>>
    /\ NormIdle
    /\ FetchIdle

UpdateGlobe ==
    /\ a_pc # "idle"
    /\ \E year \in SliderYears, input \in CallbackInputs :
          LET click_data    == input[1]
              relayout_data == input[2]
              out == update_globe(year, click_data, relayout_data,
                                  stored_country, stored_rotation)
              lon == EventRotation(relayout_data, "lon")
              lat == EventRotation(relayout_data, "lat")
          IN  /\ fig' = <<out.fig>>
              /\ stored_country' = out.clicked_country
              /\ stored_rotation' = out.rotation
              /\ g_year' = <<year>>
              /\ g_rotation' = <<out.rotation>>
              /\ emissions_data' = TableAfterFrame(emissions_data, year)
              /\ h_lon' = IF lon # <<>> THEN lon ELSE h_lon
              /\ h_lat' = IF lat # <<>> THEN lat ELSE h_lat
    /\ g_color_range' = <<>>
    /\ g_pc' = "drawn"
    /\ UNCHANGED <<g_state, current_year, country_codes_map, country_info,
                   info_html, a_pc, nvars, fvars>>

\* fired by a change of clicked-country-store, with its data
UpdateCountryInfo ==
    /\ a_pc # "idle"
    /\ country_info' = update_country_info(stored_country)
    /\ UNCHANGED <<stored_country, stored_rotation, info_html, a_pc, h_lon, h_lat,
                   nvars, fvars, gvars>>

GetCountryInfoHtml ==
    /\ a_pc # "idle"
    /\ \E country_code \in {"USA", "FRA", "CAN"} :
          info_html' = get_country_info_html(country_code)
    /\ UNCHANGED <<stored_country, stored_rotation, country_info, a_pc, h_lon, h_lat,
                   nvars, fvars, gvars>>

\* a direct create_globe call: no year, no rotation, with or without overrides
AppCreateGlobe ==
    /\ a_pc # "idle"
    /\ \E color_range \in {<<>>, << << <<"min", 300>>, <<"max", 500>> >> >>} :
          /\ fig' = <<create_globe(<<>>, <<>>, color_range)>>
          /\ g_color_range' = color_range
    /\ g_year' = <<>>
    /\ g_rotation' = <<>>
    /\ emissions_data' = TableAfterFrame(emissions_data, current_year)
    /\ g_pc' = "drawn"
    /\ UNCHANGED <<g_state, current_year, country_codes_map, nvars, fvars, avars>>

AppNext == UpdateGlobe \/ UpdateCountryInfo \/ GetCountryInfoHtml \/ AppCreateGlobe

SpecApp == AppInit /\ [][AppNext]_vars

----------------------------------------------------------------------------
(* Raw input domain of the normalizer *)

YearKeys == {"2014", "2015", "2020", "02020", "n/a"}
JsonVals == {Num(5), Num(8), JTrue, JNull, JStr}

\* a dict's items: distinct keys, any order
Co2Maps ==
    {m \in SeqsUpTo(YearKeys \X JsonVals, MaxPts) :
        \A i, j \in DOMAIN m : i # j => m[i][1] # m[j][1]}

RawRecords ==
    {RawRecord(hn, "United States", FALSE, <<>>) : hn \in BOOLEAN}
        \cup {RawRecord(hn, "United States", TRUE, m) : hn \in BOOLEAN, m \in Co2Maps}
        \cup {Co2OfType(TRUE, "United States", t) : t \in {"null", "list"}}
        \cup {RecordOfType(t) : t \in {"null", "list"}}

----------------------------------------------------------------------------
(* Specification of the normalizer: one call of process_country_data on    *)
(* any raw record of the domain.                                           *)

NormInit ==
    /\ n_code = "USA"
    /\ n_data \in RawRecords
    /\ n_out = <<>>
    /\ n_pc = "call"
    /\ FetchIdle
    /\ GlobeIdle
    /\ AppIdle

ProcessCountryData ==
    /\ n_pc = "call"
    /\ n_out' \in process_country_data(n_code, n_data)
    /\ n_pc' = IF IsException(n_out') THEN "raised" ELSE "done"
    /\ UNCHANGED <<n_code, n_data, fvars, gvars, avars>>

NormNext == ProcessCountryData

SpecNorm == NormInit /\ [][NormNext]_vars

----------------------------------------------------------------------------
(* Properties of the normalizer (SpecNorm) *)

Returned == n_pc = "done" /\ n_out # <<>>
Out == n_out[1]

StrictlyIncreasing(s) == \A i \in 1..(Len(s) - 1) : s[i] < s[i + 1]

\* two distinct keys of the raw mapping parse to the same integer year
HasDuplicateYear(items) ==
    \E i, j \in DOMAIN items :
        /\ i < j
        /\ PyInt(items[i][1]).ok /\ PyInt(items[j][1]).ok
        /\ PyInt(items[i][1]).v = PyInt(items[j][1]).v
        /\ IsNumber(items[i][2]) /\ IsNumber(items[j][2])

\* C1: every record produced by normalization has len(years) = len(emissions),
\* both non-empty, and years strictly increasing, also when distinct raw keys
\* parse to the same integer year.
C1_ParallelNonEmptyStrictlyIncreasing ==
    Returned =>
        /\ Len(Out.years) = Len(Out.emissions)
        /\ Len(Out.years) >= 1
        /\ StrictlyIncreasing(Out.years)

\* positions of the record's series that lie in the trend window
WindowIdx(r) == {i \in DOMAIN r.years : r.years[i] >= r.latest_year - TrendSpan}
WindowFirst(r) == r.emissions[CHOOSE i \in WindowIdx(r) : \A j \in WindowIdx(r) : i <= j]
WindowLast(r)  == r.emissions[CHOOSE i \in WindowIdx(r) : \A j \in WindowIdx(r) : j <= i]

FlatWindow(r) == Cardinality(WindowIdx(r)) >= 2 /\ WindowFirst(r) = WindowLast(r)

\* C3 as stated: a series whose trend window has at least two points and whose
\* value at the window's earliest point equals the value at its latest point is
\* classified stable.
C3_FlatWindowIsStable ==
    (Returned /\ FlatWindow(Out)) => Out.trend = "stable"

\* C3 as amended: such a series is classified decreasing; stable is given only
\* to a window of fewer than two points.
C3_FlatWindowIsDecreasing ==
    (Returned /\ FlatWindow(Out)) => Out.trend = "decreasing"

C3_Witness ==
    /\ Returned /\ FlatWindow(Out)
    /\ Out.trend = "decreasing"

\* C4: trend is a two-point endpoint comparison over the window of points with
\* year >= latest_year - 5: fewer than two points give stable; otherwise
\* increasing iff the window's last value is strictly greater than its first,
\* else decreasing, whatever the values in between and outside the window.
C4_TrendIsEndpointComparison ==
    Returned =>
        Out.trend = (IF Cardinality(WindowIdx(Out)) < 2 THEN "stable"
                     ELSE IF WindowLast(Out) > WindowFirst(Out) THEN "increasing"
                     ELSE "decreasing")

\* a point older than the window holds the series' maximum, the window has two
\* points, and the trend is increasing
C4_Witness ==
    /\ Returned
    /\ Len(Out.years) = 3
    /\ Cardinality(WindowIdx(Out)) = 2
    /\ Out.emissions[1] = Out.max_emission
    /\ Out.emissions[1] > WindowLast(Out)
    /\ Out.trend = "increasing"

\* C14: for every record produced by normalization, min_emission <= v <=
\* max_emission for every v in emissions, both extrema are values of the full
\* retained series (not only of the trend window), latest_year is the maximum
\* of years and latest_emission is the value paired with it (the first one
\* when the year occurs twice).
C14_ExtremaAndLatest ==
    Returned =>
        /\ \A i \in DOMAIN Out.emissions :
              Out.min_emission <= Out.emissions[i] /\ Out.emissions[i] <= Out.max_emission
        /\ Out.min_emission \in Range(Out.emissions)
        /\ Out.max_emission \in Range(Out.emissions)
        /\ Out.latest_year \in Range(Out.years)
        /\ \A i \in DOMAIN Out.years : Out.years[i] <= Out.latest_year
        /\ \E i \in DOMAIN Out.years :
              /\ Out.years[i] = Out.latest_year
              /\ \A j \in 1..(i - 1) : Out.years[j] # Out.latest_year
              /\ Out.emissions[i] = Out.latest_emission

\* three points: the maximum lies before the trend window, the minimum inside
\* it, and the latest value is neither
C14_Witness ==
    /\ Returned
    /\ Len(Out.years) = 3
    /\ WindowIdx(Out) = {2, 3}
    /\ Out.emissions[1] = Out.max_emission
    /\ Out.emissions[2] = Out.min_emission
    /\ Out.min_emission < Out.latest_emission
    /\ Out.latest_emission < Out.max_emission
    /\ Out.latest_emission = Out.emissions[3]

----------------------------------------------------------------------------
(* Properties of the fetcher (Spec) *)

Called == f_pc # "idle"

\* C2: no code of the fixed aggregate-exclusion set is ever a key of the table
\* returned by get_all_countries_data, whatever the raw input holds and
\* whether the table was normalized afresh or loaded from the processed cache.
C2_NoAggregateKey ==
    f_pc = "returned" =>
        DictKeys(f_ret) \cap {"OWID_WRL", "OWID_EUR", "OWID_ASI", "OWID_AFR",
                              "OWID_NAM", "OWID_SAM", "OWID_OCE", "OWID_KOS"} = {}

\* the raw data held the world aggregate with a series that normalization
\* would keep, and the returned table has other regions
C2_Witness ==
    /\ f_pc = "returned" /\ f_normalized
    /\ "OWID_WRL" \in DictKeys(f_raw)
    /\ <<>> \notin process_country_data("OWID_WRL", DictGet(f_raw, "OWID_WRL"))
    /\ f_ret # <<>>

Remote(attempts) == Range(attempts) \cap Sources

\* C9 as stated: for each cache file, presence always short-circuits (the
\* cached content is returned, nothing is fetched or normalized) and absence
\* makes the call fetch / normalize.
C9_PresenceShortCircuits ==
    Called =>
        /\ IF f_pre.processed.st # "absent"
             THEN /\ f_pc = "returned" /\ f_ret = f_pre.processed.data
                  /\ ~f_normalized /\ f_attempts = <<"processed_cache">>
             ELSE (f_pc = "returned" => f_normalized)
        /\ f_source # "processed_cache" =>
             IF f_pre.raw.st # "absent"
               THEN f_source = "raw_cache" /\ f_raw = f_pre.raw.data
                    /\ Remote(f_attempts) = {}
               ELSE "csv" \in Remote(f_attempts)

\* C9 as amended: a cache file short-circuits when it is present, loads and
\* (for the processed cache) holds a non-empty table; when it is absent,
\* unreadable or (processed cache) empty, the call fetches / normalizes.
C9_LoadableCacheShortCircuits ==
    Called =>
        /\ IF f_pre.processed.st = "ok" /\ f_pre.processed.data # <<>>
             THEN /\ f_pc = "returned" /\ f_ret = f_pre.processed.data
                  /\ ~f_normalized /\ f_attempts = <<"processed_cache">>
                  /\ f_source = "processed_cache"
                  /\ raw_cache_file = f_pre.raw
                  /\ processed_cache_file = f_pre.processed
             ELSE /\ f_source # "processed_cache"
                  /\ f_pc = "returned" => f_normalized
        /\ f_source # "processed_cache" =>
             IF f_pre.raw.st = "ok"
               THEN f_source = "raw_cache" /\ f_raw = f_pre.raw.data
                    /\ Remote(f_attempts) = {} /\ f_normalized
               ELSE "csv" \in Remote(f_attempts) /\ f_source # "raw_cache"

\* a call found a loadable but empty processed cache and normalized again, from
\* a raw cache that short-circuited the fetch
C9_Witness ==
    /\ Called
    /\ f_pre.processed.st = "ok" /\ f_pre.processed.data = <<>>
    /\ f_normalized
    /\ f_source = "raw_cache"

\* the first source of the call that delivers data, in the order raw cache,
\* CSV URL, JSON URLs
FirstDelivering ==
    IF f_pre.raw.st = "ok" THEN "raw_cache"
    ELSE IF "csv" \in f_avail THEN "csv"
    ELSE IF "json1" \in f_avail THEN "json1"
    ELSE IF "json2" \in f_avail THEN "json2"
    ELSE "none"

IsSubSeqOf(s, t) ==
    \E pos \in [DOMAIN s -> DOMAIN t] :
        /\ \A i \in DOMAIN s : t[pos[i]] = s[i]
        /\ \A i, j \in DOMAIN s : i < j => pos[i] < pos[j]

\* C10: when no cache loads and every remote source fails the call raises and
\* returns no table; the sources are tried at most once each, in the order raw
\* cache, CSV URL, JSON URLs, and the first one that delivers data determines
\* the result.
C10_FirstSourceDecides ==
    (Called /\ f_source # "processed_cache") =>
        /\ FirstDelivering = "none" => (f_pc = "raised" /\ f_ret = <<>>)
        /\ IsSubSeqOf(f_attempts,
                      <<"processed_cache", "raw_cache", "csv", "json1", "json2">>)
        /\ f_source = FirstDelivering

\* the raw data the call would have normalized had every write succeeded
DataWithoutWriteFailure ==
    IF FirstDelivering = "raw_cache" THEN f_pre.raw.data
    ELSE Payload(FirstDelivering)

\* C11: a failure to write either cache file is ignored: the call returns the
\* in-memory result it would have returned had the write succeeded, does not
\* raise because of the write failure and does not switch to another source.
C11_WriteFailureIgnored ==
    (Called /\ f_write_failed # {}) =>
        /\ f_pc = "returned"
        /\ f_source = FirstDelivering
        /\ f_raw = DataWithoutWriteFailure
        /\ [raised |-> FALSE, table |-> f_ret] \in Normalize(DataWithoutWriteFailure)

\* the half of C11 that the code keeps: a failed write of the processed cache
\* alone changes neither the outcome nor the source of the call
C11_ProcessedWriteFailureIgnored ==
    (Called /\ f_write_failed = {"processed"}) =>
        /\ f_pc = "returned"
        /\ f_source = FirstDelivering
        /\ f_raw = DataWithoutWriteFailure
        /\ [raised |-> FALSE, table |-> f_ret] \in Normalize(DataWithoutWriteFailure)

\* a raw entry from which normalization retains at least one point: a JSON
\* object whose 'co2' is an object with an integer year key on a numeric value
Retains(country_data) ==
    /\ country_data.t = "dict" /\ country_data.hasCo2
    /\ country_data.co2_t = "dict"
    /\ ExtractPairs(country_data.co2) # <<>>

\* a raw entry of the wrong shape: no JSON object, or its 'co2' is none
WrongShape(country_data) ==
    country_data.t # "dict" \/ (country_data.hasCo2 /\ country_data.co2_t # "dict")

\* the regions of the raw data that the table has to hold
WellFormedRegions ==
    {raw_entry[1] : raw_entry \in
        {e \in Range(f_raw) : e[1] \notin AggregateCodes /\ Retains(e[2])}}

\* C12: a malformed or metric-less record (missing metric, empty mapping,
\* non-numeric or null values, non-integer year keys, metric field or record
\* of the wrong shape) never aborts the build: get_all_countries_data
\* completes, omits that region and includes every well-formed region.
C12_MalformedRecordNeverAborts ==
    (Called /\ f_normalized) =>
        /\ f_pc = "returned"
        /\ DictKeys(f_ret) = WellFormedRegions

\* the part of C12 that the code keeps: when every entry of the raw data is an
\* object (or a list) and every 'co2' an object, the build completes with
\* exactly the well-formed regions
C12_SkippableRecordNeverAborts ==
    (Called /\ f_normalized
        /\ \A e \in Range(f_raw) :
               e[2].t # "null" /\ (e[2].t = "dict" /\ e[2].hasCo2 => e[2].co2_t = "dict")) =>
        /\ f_pc = "returned"
        /\ DictKeys(f_ret) = WellFormedRegions

----------------------------------------------------------------------------
(* Properties of the visualizer (SpecGlobe) *)

Drawn == g_pc = "drawn"
Fig == fig[1]

\* the year of the frame: the requested one, or current_year for None
FrameYear == IF g_year = <<>> THEN current_year ELSE g_year[1]

\* the largest latest_emission of the table, in hundredths
MaxLatest ==
    100 * SeqMax([i \in DOMAIN emissions_data |-> emissions_data[i][2].latest_emission])

\* the bound that replaces a zmax that is not positive
PositiveFallback == IF MaxLatest > 0 THEN MaxLatest ELSE 100

Overrides == IF g_color_range = <<>> THEN <<>> ELSE g_color_range[1]
Supplied(key) == key \in DictKeys(Overrides)

\* C5: for every region of the table and every requested year the frame holds
\* the value paired with that year when the region has it, and the region's
\* latest_emission otherwise; one value per region, in table order.
C5_FrameValuePairedOrLatest ==
    Drawn =>
        /\ Fig.year = FrameYear
        /\ Len(Fig.z) = Len(emissions_data)
        /\ Len(Fig.names) = Len(emissions_data)
        /\ \A i \in DOMAIN emissions_data :
              LET data == emissions_data[i][2]
                  at   == {j \in DOMAIN data.years : data.years[j] = FrameYear}
              IN  /\ Fig.names[i] = data.country_name
                  /\ Fig.z[i] = IF at = {} THEN data.latest_emission
                                ELSE data.emissions[CHOOSE j \in at : \A k \in at : j <= k]

\* a frame of a year one region lacks and another has: the first shows its
\* non-zero latest value, the second a value that is not its latest
C5_Witness ==
    /\ Drawn
    /\ \E i, j \in DOMAIN emissions_data :
          /\ FrameYear \notin Range(emissions_data[i][2].years)
          /\ Fig.z[i] = emissions_data[i][2].latest_emission /\ Fig.z[i] # 0
          /\ FrameYear \in Range(emissions_data[j][2].years)
          /\ Fig.z[j] # emissions_data[j][2].latest_emission

\* C6 as stated: without a max override, whenever the 95th percentile of the
\* frame is <= 0 the resolved zmax is the true maximum of the frame.
C6_ZmaxIsTrueMax ==
    (Drawn /\ ~Supplied("max") /\ NanPercentile(Fig.z, HighPercentile) <= 0) =>
        Fig.zmax = 100 * SeqMax(Fig.z)

\* C6 as amended: ... the resolved zmax is the true maximum of the frame when
\* that maximum is positive; when it is not, zmax is the largest
\* latest_emission of the table if that is positive and 1.0 otherwise.
C6_ZmaxIsTrueMaxIfPositive ==
    (Drawn /\ ~Supplied("max") /\ NanPercentile(Fig.z, HighPercentile) <= 0) =>
        Fig.zmax = IF SeqMax(Fig.z) > 0 THEN 100 * SeqMax(Fig.z) ELSE PositiveFallback

\* the 95th percentile is negative, the true maximum positive and different
\* from the largest latest value
C6_Witness ==
    /\ Drawn /\ ~Supplied("max")
    /\ NanPercentile(Fig.z, HighPercentile) < 0
    /\ SeqMax(Fig.z) > 0
    /\ 100 * SeqMax(Fig.z) # MaxLatest
    /\ Fig.zmax = 100 * SeqMax(Fig.z)

\* the minimum arrived at before the degenerate-scale correction
MinArrivedAt ==
    IF Supplied("min") THEN DictGet(Overrides, "min")
    ELSE LET percentile_5 == NanPercentile(Fig.z, LowPercentile)
         IN  IF percentile_5 > 0 THEN percentile_5 ELSE 0

\* C7: for every frame and every combination of overrides, if the maximum
\* arrived at is at or below the minimum arrived at, the resolved zmin is 0;
\* otherwise zmin is the minimum as computed or overridden.
C7_DegenerateScaleResetsZmin ==
    Drawn => Fig.zmin = IF Fig.zmax <= MinArrivedAt THEN 0 ELSE MinArrivedAt

\* a supplied positive minimum lies above the maximum and zmin was reset
C7_Witness ==
    /\ Drawn
    /\ Supplied("min") /\ MinArrivedAt > 0
    /\ Fig.zmax < MinArrivedAt
    /\ Fig.zmin = 0

\* C8 as stated: a supplied 'max' is the resolved zmax, and a supplied 'min'
\* is the resolved zmin unless the degenerate correction resets it to 0.
C8_OverridesReplaceBounds ==
    Drawn =>
        /\ Supplied("max") => Fig.zmax = DictGet(Overrides, "max")
        /\ Supplied("min") =>
              Fig.zmin = IF Fig.zmax <= DictGet(Overrides, "min") THEN 0
                         ELSE DictGet(Overrides, "min")

\* C8 as amended: a supplied 'max' that is positive is the resolved zmax; a
\* supplied 'max' <= 0 is replaced by the largest latest_emission of the
\* table if that is positive and by 1.0 otherwise; a supplied 'min' is the
\* resolved zmin unless the degenerate correction resets it to 0.
C8_PositiveOverridesReplaceBounds ==
    Drawn =>
        /\ Supplied("max") =>
              Fig.zmax = IF DictGet(Overrides, "max") > 0
                           THEN DictGet(Overrides, "max") ELSE PositiveFallback
        /\ Supplied("min") =>
              Fig.zmin = IF Fig.zmax <= DictGet(Overrides, "min") THEN 0
                         ELSE DictGet(Overrides, "min")

\* both bounds supplied: a negative 'min' is kept as it is and a 'max' of 0
\* is replaced
C8_Witness ==
    /\ Drawn
    /\ Supplied("max") /\ DictGet(Overrides, "max") <= 0
    /\ Supplied("min") /\ DictGet(Overrides, "min") < 0
    /\ Fig.zmin = DictGet(Overrides, "min")
    /\ Fig.zmax = PositiveFallback

\* a frame whose values are all zero, drawn without overrides
ZeroFrame ==
    /\ Drawn /\ ~Supplied("min") /\ ~Supplied("max")
    /\ \A i \in DOMAIN Fig.z : Fig.z[i] = 0

\* C13: the colour-domain computation never crashes on degenerate input: for
\* an empty table or a frame whose values are all zero, constructing
\* GlobeVisualizer and calling create_globe complete and yield deterministic
\* fallback bounds.
C13_DegenerateInputNeverCrashes ==
    /\ (g_state # "unbuilt" /\ emissions_data = <<>>) => g_state = "ready"
    /\ ZeroFrame => (Fig.zmin = 0 /\ Fig.zmax = PositiveFallback)

\* the part of C13 that the code keeps: a frame of zeros gets zmin 0 and, for
\* zmax, the largest latest_emission of the table if positive and 1.0 otherwise
C13_ZeroFrameFallsBack ==
    ZeroFrame => (Fig.zmin = 0 /\ Fig.zmax = PositiveFallback)

----------------------------------------------------------------------------
(* Properties of the application (SpecApp) *)

\* C15: once built, the normalized table is never mutated: no step of
\* update_globe, update_country_info, create_globe or get_country_info_html
\* (any years, clicks, viewports, overrides) changes the table or a record
\* in it.
C15_TableNeverMutated == [][emissions_data' = emissions_data]_vars

\* every operation has acted: a click selected a region and a relayout turned
\* the globe (update_globe), the panel shows the selected region
\* (update_country_info), an HTML panel was produced (get_country_info_html)
\* and the figure at hand comes from create_globe with overrides, for a year
\* in which a region's value differs from its latest one
C15_Witness ==
    /\ a_pc = "serving"
    /\ stored_country # <<>>
    /\ stored_rotation # DefaultRotation
    /\ country_info # <<>>
    /\ country_info[1].info_panel.name = DictGet(emissions_data, stored_country[1]).country_name
    /\ info_html # <<>>
    /\ g_color_range # <<>>
    /\ emissions_data \in AppTables

\* the value a rotation dict holds for an axis
Angle(rotation, axis) == RangeGet(rotation, axis, 0)

\* the angle C16 requires for an axis: the one supplied last, 0 if none was
Tracked(h) == IF h = <<>> THEN 0 ELSE h[1]

\* C16: the stored and forwarded rotation has, for each of lon and lat, the
\* value most recently supplied by a relayout event (a supplied 0 included),
\* or 0 if none was ever supplied; a call without rotation leaves the stored
\* rotation unchanged; create_globe applies the rotation it receives.
C16_RotationTracksRelayout ==
    a_pc = "serving" =>
        /\ Angle(stored_rotation, "lon") = Tracked(h_lon)
        /\ Angle(stored_rotation, "lat") = Tracked(h_lat)
        /\ g_rotation # <<>> =>
              /\ g_rotation[1] = stored_rotation
              /\ Fig.rotation = [lon |-> Tracked(h_lon), lat |-> Tracked(h_lat)]

\* the part of C16 that the code keeps: update_globe forwards the rotation it
\* stores, and create_globe puts the rotation it receives (the default for
\* None) into the figure
C16_ForwardedRotationIsStored ==
    a_pc = "serving" =>
        /\ DictKeys(stored_rotation) = {"lon", "lat"}
        /\ g_rotation # <<>> => g_rotation[1] = stored_rotation
        /\ Fig.rotation =
              IF g_rotation = <<>> THEN [lon |-> 0, lat |-> 0]
              ELSE [lon |-> Angle(g_rotation[1], "lon"),
                    lat |-> Angle(g_rotation[1], "lat")]

====
